---------------------------- MODULE Spec2Model ----------------------------
(***************************************************************************)
(* Model of src/lib/search-utils.ts: levenshteinDistance, fuzzyMatch and   *)
(* calculateMatchScore.                                                    *)
(*                                                                         *)
(* A JavaScript string is a sequence of one-character strings.  The three  *)
(* functions are pure; a call is modelled as a two-step machine: the       *)
(* arguments are chosen in the initial state (pc = "ready") and the call   *)
(* action stores what the function returns, or that it threw, in ret.      *)
(* Scores are IEEE doubles in the source; the model computes them as exact *)
(* rationals [num, den].                                                   *)
(***************************************************************************)
EXTENDS Integers, Sequences, FiniteSets

VARIABLES pc, args, ret

vars == <<pc, args, ret>>

(***************************************************************************)
(* Strings                                                                 *)
(***************************************************************************)

\* Strings of length at most n over the alphabet A.
StringsUpTo(A, n) == UNION {[1..k -> A] : k \in 0..n}

UpperCaseLetters ==
  <<"A", "B", "C", "D", "E", "F", "G", "H", "I", "J", "K", "L", "M",
    "N", "O", "P", "Q", "R", "S", "T", "U", "V", "W", "X", "Y", "Z">>

LowerCaseLetters ==
  <<"a", "b", "c", "d", "e", "f", "g", "h", "i", "j", "k", "l", "m",
    "n", "o", "p", "q", "r", "s", "t", "u", "v", "w", "x", "y", "z">>

\* The characters String.prototype.trim strips and the regular expression \s
\* matches (the ones the model's inputs use).
WhiteSpace == {" ", "\t"}

LowerChar(c) ==
  IF \E i \in 1..Len(UpperCaseLetters) : UpperCaseLetters[i] = c
  THEN LowerCaseLetters[CHOOSE i \in 1..Len(UpperCaseLetters) : UpperCaseLetters[i] = c]
  ELSE c

UpperChar(c) ==
  IF \E i \in 1..Len(LowerCaseLetters) : LowerCaseLetters[i] = c
  THEN UpperCaseLetters[CHOOSE i \in 1..Len(LowerCaseLetters) : LowerCaseLetters[i] = c]
  ELSE c

\* String.prototype.toLowerCase
toLowerCase(s) == [i \in 1..Len(s) |-> LowerChar(s[i])]

\* String.prototype.toUpperCase (used to build inputs only)
toUpperCase(s) == [i \in 1..Len(s) |-> UpperChar(s[i])]

\* String.prototype.trim
trim(s) ==
  LET keep == {i \in 1..Len(s) : s[i] \notin WhiteSpace}
  IN  IF keep = {} THEN <<>>
      ELSE LET first == CHOOSE i \in keep : \A j \in keep : i <= j
               last  == CHOOSE i \in keep : \A j \in keep : j <= i
           IN  SubSeq(s, first, last)

\* String.prototype.includes: text.includes(term)
includes(text, term) ==
  \E i \in 0..(Len(text) - Len(term)) : SubSeq(text, i + 1, i + Len(term)) = term

\* Array.prototype.includes
arrayIncludes(arr, x) == \E i \in 1..Len(arr) : arr[i] = x

\* String.prototype.split(/\s+/): every maximal run of white space is one
\* separator; a leading or trailing run leaves an empty string at that end,
\* and the empty string splits into one empty string.
RECURSIVE splitFrom(_, _, _, _)
splitFrom(s, i, cur, acc) ==
  IF i > Len(s) THEN Append(acc, cur)
  ELSE IF s[i] \in WhiteSpace
       THEN LET rest == {j \in i..Len(s) : s[j] \notin WhiteSpace}
                next == IF rest = {} THEN Len(s) + 1
                        ELSE CHOOSE j \in rest : \A k \in rest : j <= k
            IN  splitFrom(s, next, <<>>, Append(acc, cur))
       ELSE splitFrom(s, i + 1, Append(cur, s[i]), acc)

split(s) == splitFrom(s, 1, <<>>, <<>>)

Min2(x, y) == IF x <= y THEN x ELSE y

Min3(x, y, z) == Min2(x, Min2(y, z))

Abs(x) == IF x < 0 THEN -x ELSE x

(***************************************************************************)
(* levenshteinDistance (lines 69-90)                                       *)
(***************************************************************************)

\* The inner loop over j for one row i.  prev is row i-1 and cur the part of
\* row i filled so far; dp[i][j] is kept at position j+1 of the row.
RECURSIVE fillRow(_, _, _, _, _)
fillRow(a, b, i, prev, cur) ==
  LET j == Len(cur)
  IN  IF j > Len(b) THEN cur
      ELSE fillRow(a, b, i, prev,
                   Append(cur, IF a[i] = b[j]
                               THEN prev[j]
                               ELSE 1 + Min3(prev[j + 1], cur[j], prev[j])))

\* The outer loop over i; returns dp[m][n].
RECURSIVE fillTable(_, _, _, _)
fillTable(a, b, i, prev) ==
  IF i > Len(a) THEN prev[Len(b) + 1]
  ELSE fillTable(a, b, i + 1, fillRow(a, b, i, prev, <<i>>))

\* Mutant: the loop of line 77 is left out, so row 0 keeps the zeros of fill(0).
levenshteinDistance_noBaseRow(a, b) ==
  fillTable(a, b, 1, [j \in 1..(Len(b) + 1) |-> 0])

levenshteinDistance(a, b) ==
  fillTable(a, b, 1, [j \in 1..(Len(b) + 1) |-> j - 1])

(***************************************************************************)
(* fuzzyMatch (lines 2-66)                                                 *)
(***************************************************************************)

\* The object literal of lines 12-29, as its entries <<key, expansions>> in
\* insertion order (the order of Object.entries).
abbreviations ==
  <<
    <<<<"m", "a", "t", "h", "s">>, <<<<"m", "a", "t", "h">>, <<"m", "a", "t", "h", "e", "m", "a", "t", "i", "c", "s">>>>>>,
    <<<<"m", "a", "t", "h">>, <<<<"m", "a", "t", "h", "s">>, <<"m", "a", "t", "h", "e", "m", "a", "t", "i", "c", "s">>>>>>,
    <<<<"s", "c", "i">>, <<<<"s", "c", "i", "e", "n", "c", "e">>>>>>,
    <<<<"e", "n", "g">>, <<<<"e", "n", "g", "l", "i", "s", "h">>>>>>,
    <<<<"b", "i", "o">>, <<<<"b", "i", "o", "l", "o", "g", "y">>>>>>,
    <<<<"c", "h", "e", "m">>, <<<<"c", "h", "e", "m", "i", "s", "t", "r", "y">>>>>>,
    <<<<"p", "h", "y", "s">>, <<<<"p", "h", "y", "s", "i", "c", "s">>>>>>,
    <<<<"l", "i", "t">>, <<<<"l", "i", "t", "e", "r", "a", "t", "u", "r", "e">>>>>>,
    <<<<"h", "i", "s", "t">>, <<<<"h", "i", "s", "t", "o", "r", "y">>>>>>,
    <<<<"g", "e", "o">>, <<<<"g", "e", "o", "g", "r", "a", "p", "h", "y">>>>>>,
    <<<<"s", "1">>, <<<<"s", "e", "n", "i", "o", "r", " ", "1">>>>>>,
    <<<<"s", "2">>, <<<<"s", "e", "n", "i", "o", "r", " ", "2">>>>>>,
    <<<<"s", "3">>, <<<<"s", "e", "n", "i", "o", "r", " ", "3">>>>>>,
    <<<<"s", "4">>, <<<<"s", "e", "n", "i", "o", "r", " ", "4">>>>>>,
    <<<<"s", "5">>, <<<<"s", "e", "n", "i", "o", "r", " ", "5">>>>>>,
    <<<<"s", "6">>, <<<<"s", "e", "n", "i", "o", "r", " ", "6">>>>>>
  >>

\* abbreviations is a plain object literal, so a property read that finds no
\* own key goes on to Object.prototype: these names yield a function or an
\* object (truthy, not iterable) instead of undefined, and the for...of of
\* line 33 then throws a TypeError.  The term is lowercased first, so only
\* the names written in lower case can be hit.
ObjectPrototypeKeys ==
  {
    <<"c", "o", "n", "s", "t", "r", "u", "c", "t", "o", "r">>,
    <<"_", "_", "p", "r", "o", "t", "o", "_", "_">>,
    <<"h", "a", "s", "O", "w", "n", "P", "r", "o", "p", "e", "r", "t", "y">>,
    <<"i", "s", "P", "r", "o", "t", "o", "t", "y", "p", "e", "O", "f">>,
    <<"p", "r", "o", "p", "e", "r", "t", "y", "I", "s", "E", "n", "u", "m", "e", "r", "a", "b", "l", "e">>,
    <<"t", "o", "L", "o", "c", "a", "l", "e", "S", "t", "r", "i", "n", "g">>,
    <<"t", "o", "S", "t", "r", "i", "n", "g">>,
    <<"v", "a", "l", "u", "e", "O", "f">>,
    <<"_", "_", "d", "e", "f", "i", "n", "e", "G", "e", "t", "t", "e", "r", "_", "_">>,
    <<"_", "_", "d", "e", "f", "i", "n", "e", "S", "e", "t", "t", "e", "r", "_", "_">>,
    <<"_", "_", "l", "o", "o", "k", "u", "p", "G", "e", "t", "t", "e", "r", "_", "_">>,
    <<"_", "_", "l", "o", "o", "k", "u", "p", "S", "e", "t", "t", "e", "r", "_", "_">>
  }

\* abbreviations[term] (line 32).
abbreviationsGet(term) ==
  IF \E i \in 1..Len(abbreviations) : abbreviations[i][1] = term
  THEN [kind |-> "array",
        value |-> abbreviations[CHOOSE i \in 1..Len(abbreviations) :
                                  abbreviations[i][1] = term][2]]
  ELSE IF term \in ObjectPrototypeKeys
       THEN [kind |-> "inherited"]
       ELSE [kind |-> "undefined"]

\* What a call did: returned value at the return statement of the given line,
\* or threw at the given line.
Return(v, line) == [kind |-> "return", value |-> v, line |-> line]

Throw(line) == [kind |-> "throw", line |-> line]

\* Lines 51-63: some term word and some text word, both of 4 or more
\* characters and of lengths at most 1 apart, are at distance at most 1.
levenshteinWordMatch(termWords, words) ==
  \E t \in 1..Len(termWords) :
    /\ Len(termWords[t]) >= 4
    /\ \E w \in 1..Len(words) :
         /\ Abs(Len(termWords[t]) - Len(words[w])) <= 1
         /\ Len(words[w]) >= 4
         /\ levenshteinDistance(termWords[t], words[w]) <= 1

\* Mutant: the search term is lowercased but not trimmed (line 3).
fuzzyMatch_noTrim(searchTerm, targetText) ==
  LET term  == toLowerCase(searchTerm)
      text  == toLowerCase(targetText)
      entry == abbreviationsGet(term)
  IN  IF includes(text, term) THEN Return(TRUE, 8)
      ELSE IF entry.kind = "inherited" THEN Throw(33)
      ELSE IF /\ entry.kind = "array"
              /\ \E i \in 1..Len(entry.value) : includes(text, entry.value[i])
           THEN Return(TRUE, 35)
      ELSE IF \E i \in 1..Len(abbreviations) :
                /\ arrayIncludes(abbreviations[i][2], term)
                /\ includes(text, abbreviations[i][1])
           THEN Return(TRUE, 43)
      ELSE IF levenshteinWordMatch(split(term), split(text))
           THEN Return(TRUE, 58)
      ELSE Return(FALSE, 65)

\* Mutant: the reverse loop of lines 41-45 is left out.
fuzzyMatch_noReverse(searchTerm, targetText) ==
  LET term  == trim(toLowerCase(searchTerm))
      text  == toLowerCase(targetText)
      entry == abbreviationsGet(term)
  IN  IF includes(text, term) THEN Return(TRUE, 8)
      ELSE IF entry.kind = "inherited" THEN Throw(33)
      ELSE IF /\ entry.kind = "array"
              /\ \E i \in 1..Len(entry.value) : includes(text, entry.value[i])
           THEN Return(TRUE, 35)
      ELSE IF levenshteinWordMatch(split(term), split(text))
           THEN Return(TRUE, 58)
      ELSE Return(FALSE, 65)

fuzzyMatch(searchTerm, targetText) ==
  LET term  == trim(toLowerCase(searchTerm))
      text  == toLowerCase(targetText)
      entry == abbreviationsGet(term)
  IN  IF includes(text, term) THEN Return(TRUE, 8)
      ELSE IF entry.kind = "inherited" THEN Throw(33)
      ELSE IF /\ entry.kind = "array"
              /\ \E i \in 1..Len(entry.value) : includes(text, entry.value[i])
           THEN Return(TRUE, 35)
      ELSE IF \E i \in 1..Len(abbreviations) :
                /\ arrayIncludes(abbreviations[i][2], term)
                /\ includes(text, abbreviations[i][1])
           THEN Return(TRUE, 43)
      ELSE IF levenshteinWordMatch(split(term), split(text))
           THEN Return(TRUE, 58)
      ELSE Return(FALSE, 65)

(***************************************************************************)
(* calculateMatchScore (lines 93-130)                                      *)
(***************************************************************************)

\* Exact rational arithmetic for the score.
Rat(n, d) == [num |-> n, den |-> d]

RatAdd(x, y) == Rat(x.num * y.den + y.num * x.den, x.den * y.den)

RatMul(x, y) == Rat(x.num * y.num, x.den * y.den)

RatEq(x, y) == x.num * y.den = y.num * x.den

RatLeq(x, y) == x.num * y.den <= y.num * x.den

\* Mutant: the partial title test is an if of its own, not an else branch.
titleMatch_noElse(titleLower, queryLower) ==
  (IF titleLower = queryLower THEN 100 ELSE 0)
    + (IF includes(titleLower, queryLower) THEN 90 ELSE 0)

\* Mutant: the two title weights are exchanged.
titleMatch_swappedWeights(titleLower, queryLower) ==
  IF titleLower = queryLower THEN 90
  ELSE IF includes(titleLower, queryLower) THEN 100
  ELSE 0

\* Lines 98-102: the exact title match, else the partial one.
titleMatch(titleLower, queryLower) ==
  IF titleLower = queryLower THEN 100
  ELSE IF includes(titleLower, queryLower) THEN 90
  ELSE 0

\* Line 107: the title words that contain a query word or lie within one.
titleWordMatches(titleWords, queryWords) ==
  Cardinality({i \in 1..Len(titleWords) :
                 \E j \in 1..Len(queryWords) :
                   \/ includes(titleWords[i], queryWords[j])
                   \/ includes(queryWords[j], titleWords[i])})

\* Lines 105-110: 70 * (titleWordMatches / titleWords.length), when positive.
titleWordScore(titleLower, queryLower) ==
  LET titleWords == split(titleLower)
      queryWords == split(queryLower)
      matches    == titleWordMatches(titleWords, queryWords)
  IN  IF matches > 0
      THEN RatMul(Rat(70, 1), Rat(matches, Len(titleWords)))
      ELSE Rat(0, 1)

\* Lines 113-117: the exact subject match, else the partial one.
subjectMatch(subjectLower, queryLower) ==
  IF subjectLower = queryLower THEN 80
  ELSE IF includes(subjectLower, queryLower) THEN 75
  ELSE 0

\* Lines 120-122.
descriptionMatch(descriptionLower, queryLower) ==
  IF includes(descriptionLower, queryLower) THEN 40 ELSE 0

\* Mutant: the length test is > 4 instead of >= 4.
fuzzyBonus_lengthOffByOne(query, queryLower, title, subject) ==
  IF Len(queryLower) > 4
  THEN LET fuzzy == fuzzyMatch(query, title \o <<" ">> \o subject)
       IN  IF fuzzy.kind = "throw" THEN fuzzy
           ELSE Return(IF fuzzy.value THEN 20 ELSE 0, 126)
  ELSE Return(0, 125)

\* Line 125: fuzzyMatch is called only when the length test passes.
fuzzyBonus(query, queryLower, title, subject) ==
  IF Len(queryLower) >= 4
  THEN LET fuzzy == fuzzyMatch(query, title \o <<" ">> \o subject)
       IN  IF fuzzy.kind = "throw" THEN fuzzy
           ELSE Return(IF fuzzy.value THEN 20 ELSE 0, 126)
  ELSE Return(0, 125)

calculateMatchScore(query, title, description, subject) ==
  LET queryLower == toLowerCase(query)
      score0 == Rat(0, 1)
      score1 == RatAdd(score0, Rat(titleMatch(toLowerCase(title), queryLower), 1))
      score2 == RatAdd(score1, titleWordScore(toLowerCase(title), queryLower))
      score3 == RatAdd(score2, Rat(subjectMatch(toLowerCase(subject), queryLower), 1))
      score4 == RatAdd(score3, Rat(descriptionMatch(toLowerCase(description), queryLower), 1))
      bonus  == fuzzyBonus(query, queryLower, title, subject)
  IN  IF bonus.kind = "throw" THEN bonus
      ELSE Return(RatAdd(score4, Rat(bonus.value, 1)), 129)

(***************************************************************************)
(* Calls of levenshteinDistance                                            *)
(***************************************************************************)

MaxLevLen == 3

LevAlphabet == {"a", "b"}

Kitten == <<"k", "i", "t", "t", "e", "n">>

Sitting == <<"s", "i", "t", "t", "i", "n", "g">>

LevStrings == StringsUpTo(LevAlphabet, MaxLevLen) \cup {Kitten, Sitting}

Pending == [kind |-> "pending"]

InitLev ==
  /\ pc = "ready"
  /\ args \in [a : LevStrings, b : LevStrings]
  /\ ret = Pending

CallLevenshteinDistance ==
  /\ pc = "ready"
  /\ pc' = "done"
  /\ ret' = [kind |-> "return", value |-> levenshteinDistance(args.a, args.b)]
  /\ UNCHANGED args

NextLev == CallLevenshteinDistance

SpecLev == InitLev /\ [][NextLev]_vars

\* Reference: the strings one insertion, deletion or substitution away from s.
OneEdit(s, A) ==
  {SubSeq(s, 1, i - 1) \o SubSeq(s, i + 1, Len(s)) : i \in 1..Len(s)}
  \cup {[s EXCEPT ![i] = c] : i \in 1..Len(s), c \in A}
  \cup {SubSeq(s, 1, i) \o <<c>> \o SubSeq(s, i + 1, Len(s)) : i \in 0..Len(s), c \in A}

\* Reference: the least k such that k single-character edits turn some string
\* of the set reached into target, found by breadth-first search.
RECURSIVE MinEdits(_, _, _, _)
MinEdits(reached, target, k, A) ==
  IF target \in reached THEN k
  ELSE MinEdits(reached \cup UNION {OneEdit(t, A) : t \in reached}, target, k + 1, A)

\* C3: levenshteinDistance(a, b) is the minimum number of single-character
\* insertions, deletions and substitutions that turn a into b (against the
\* breadth-first reference on the bounded strings); distance(a, a) = 0,
\* distance("", s) = length(s) and distance("kitten", "sitting") = 3.
C3_LevenshteinIsMinimumEdits ==
  pc = "done" =>
    /\ ret.kind = "return"
    /\ (args.a \in StringsUpTo(LevAlphabet, MaxLevLen)
          /\ args.b \in StringsUpTo(LevAlphabet, MaxLevLen))
        => ret.value = MinEdits({args.a}, args.b, 0, LevAlphabet)
    /\ args.a = args.b => ret.value = 0
    /\ args.a = <<>> => ret.value = Len(args.b)
    /\ (args.a = Kitten /\ args.b = Sitting) => ret.value = 3

C3_Witness ==
  /\ pc = "done"
  /\ args.a = <<"a", "b", "a">>
  /\ args.b = <<"b", "b">>
  /\ ret = [kind |-> "return", value |-> 2]

(***************************************************************************)
(* Calls of fuzzyMatch                                                     *)
(***************************************************************************)

MaxTermLen == 4

MaxTextLen == 5

MaxPad == 1

\* Short strings: every letter of a term and a text agree only after both are
\* lowercased.
SmallTerms == StringsUpTo({"a", "B", " "}, MaxTermLen)

SmallTexts == StringsUpTo({"A", "b", " "}, MaxTextLen)

TableKeys == {abbreviations[i][1] : i \in 1..Len(abbreviations)}

TableExpansions ==
  UNION {{abbreviations[i][2][j] : j \in 1..Len(abbreviations[i][2])} :
           i \in 1..Len(abbreviations)}

OtherWords ==
  { <<"c", "o", "n", "s", "t", "r", "u", "c", "t", "o", "r">>,
    <<"_", "_", "p", "r", "o", "t", "o", "_", "_">>,
    <<"t", "o", "S", "t", "r", "i", "n", "g">>,
    <<"c", "h", "e", "m", "i", "s", "t", "y">>,
    <<"m", "e", "t", "h", "s">>,
    <<"x", "y", "z">>,
    <<"z", "z">>,
    <<>> }

InputWords == TableKeys \cup TableExpansions \cup OtherWords

\* Terms: a word as written or in capitals, with leading blanks and trailing
\* tabs.
CuratedTerms ==
  {lead \o w \o trail :
     lead \in StringsUpTo({" "}, MaxPad), trail \in StringsUpTo({"\t"}, MaxPad),
     w \in InputWords \cup {toUpperCase(x) : x \in InputWords}}

\* Texts: a word as written or in capitals, inside a sentence or alone.
CuratedTexts ==
  {pre \o w \o post :
     pre \in {<<>>, <<"I", " ", "l", "o", "v", "e", " ">>},
     post \in {<<>>, <<" ", "1", "0", "1">>},
     w \in InputWords \cup {toUpperCase(x) : x \in InputWords}}

InitFuzzy ==
  /\ pc = "ready"
  /\ args \in [searchTerm : SmallTerms, targetText : SmallTexts]
              \cup [searchTerm : CuratedTerms, targetText : CuratedTexts]
  /\ ret = Pending

CallFuzzyMatch ==
  /\ pc = "ready"
  /\ pc' = "done"
  /\ ret' = fuzzyMatch(args.searchTerm, args.targetText)
  /\ UNCHANGED args

NextFuzzy == CallFuzzyMatch

SpecFuzzy == InitFuzzy /\ [][NextFuzzy]_vars

(***************************************************************************)
(* Calls of calculateMatchScore                                            *)
(***************************************************************************)

MaxQueryLen == 4

MaxTitleLen == 3

\* Upper case to lower case and back.
SwapCase(s) ==
  [i \in 1..Len(s) |-> IF LowerChar(s[i]) = s[i] THEN UpperChar(s[i]) ELSE LowerChar(s[i])]

ScoreQueries == StringsUpTo({"a", "B", " "}, MaxQueryLen)

\* Short titles, and titles built around the query in the other case.
ScoreTitles(q) ==
  StringsUpTo({"A", "b", " "}, MaxTitleLen)
    \cup {SwapCase(q), SwapCase(q) \o <<" ", "b">>, <<"A", " ", "A">> \o SwapCase(q)}

ScoreDescriptions(q) == {<<>>, <<"b", " ">> \o SwapCase(q) \o <<"A">>}

ScoreSubjects(q) ==
  {<<>>, SwapCase(q), <<"A", " ">> \o SwapCase(q), <<"A", "A", "A", "A", "b">>}

Maths == <<"m", "a", "t", "h", "s">>

Constructor == <<"c", "o", "n", "s", "t", "r", "u", "c", "t", "o", "r">>

Mathematics101 ==
  <<"M", "a", "t", "h", "e", "m", "a", "t", "i", "c", "s", " ", "1", "0", "1">>

IntroCourse == <<"i", "n", "t", "r", "o", " ", "c", "o", "u", "r", "s", "e">>

\* The catalogue examples.
CatalogueArgs ==
  [query : {Maths, toUpperCase(Maths), <<" ">> \o Maths, Maths \o <<" ">>,
            <<"m", "a", "t", "h">>, <<"b", "i", "o">>, Constructor},
   title : {<<>>, Mathematics101, toUpperCase(Maths), <<"M", "a", "t", "h", " ", "b", "i", "o">>,
            <<"B", "i", "o", "l", "o", "g", "y">>, Constructor \o <<"s">>},
   description : {<<>>, IntroCourse, <<"a", "l", "l", " ">> \o Maths},
   subject : {<<>>, <<"M", "a", "t", "h", "s">>, <<"B", "i", "o", "l", "o", "g", "y">>}]

InitScore ==
  /\ pc = "ready"
  /\ \/ \E q \in ScoreQueries :
          args \in [query : {q}, title : ScoreTitles(q),
                    description : ScoreDescriptions(q), subject : ScoreSubjects(q)]
     \/ args \in CatalogueArgs
  /\ ret = Pending

CallCalculateMatchScore ==
  /\ pc = "ready"
  /\ pc' = "done"
  /\ ret' = calculateMatchScore(args.query, args.title, args.description, args.subject)
  /\ UNCHANGED args

NextScore == CallCalculateMatchScore

SpecScore == InitScore /\ [][NextScore]_vars

\* Reference: the white-space-delimited words of s, as the maximal runs of
\* characters that are not white space.
WordsOf(s) ==
  {SubSeq(s, ij[1], ij[2]) :
     ij \in {x \in (1..Len(s)) \X (1..Len(s)) :
               /\ x[1] <= x[2]
               /\ \A k \in x[1]..x[2] : s[k] \notin WhiteSpace
               /\ (x[1] = 1 \/ s[x[1] - 1] \in WhiteSpace)
               /\ (x[2] = Len(s) \/ s[x[2] + 1] \in WhiteSpace)}}

CharsOf(s) == {s[i] : i \in 1..Len(s)}

\* Rules (a) to (d) of the matcher, on the normalised term and text.
RuleSubstring(term, text) == includes(text, term)

RuleForward(term, text) ==
  \E i \in 1..Len(abbreviations) :
    /\ abbreviations[i][1] = term
    /\ \E j \in 1..Len(abbreviations[i][2]) : includes(text, abbreviations[i][2][j])

RuleReverse(term, text) ==
  \E i \in 1..Len(abbreviations) :
    /\ \E j \in 1..Len(abbreviations[i][2]) : abbreviations[i][2][j] = term
    /\ includes(text, abbreviations[i][1])

RuleEditDistance(term, text) ==
  \E tw \in WordsOf(term), w \in WordsOf(text) :
    /\ Len(tw) >= 4
    /\ Len(w) >= 4
    /\ Abs(Len(tw) - Len(w)) <= 1
    /\ (w = tw \/ w \in OneEdit(tw, CharsOf(w)))

SomeRule(searchTerm, targetText) ==
  LET term == trim(toLowerCase(searchTerm))
      text == toLowerCase(targetText)
  IN  \/ RuleSubstring(term, text)
      \/ RuleForward(term, text)
      \/ RuleReverse(term, text)
      \/ RuleEditDistance(term, text)

\* C4: fuzzyMatch returns true if and only if one of the rules (a) substring,
\* (b) forward abbreviation, (c) reverse abbreviation, (d) edit distance at
\* most 1 between words of 4 or more characters holds, and false otherwise;
\* a term of short words never matches through (d): fuzzyMatch("zz", "xyz")
\* is false.
C4_FuzzyMatchIffSomeRule ==
  pc = "done" =>
    /\ ret.kind = "return"
    /\ ret.value = SomeRule(args.searchTerm, args.targetText)
    /\ (\A tw \in WordsOf(trim(toLowerCase(args.searchTerm))) : Len(tw) < 4)
         => ret.line # 58

\* C8: the table works in both directions: for a key k and an expansion e of
\* k, fuzzyMatch(k, text) is true when the lowercased text contains e, and
\* fuzzyMatch(e, text) is true when it contains k.
C8_AbbreviationsBothDirections ==
  pc = "done" =>
    \A i \in 1..Len(abbreviations) : \A j \in 1..Len(abbreviations[i][2]) :
      LET k == abbreviations[i][1]
          e == abbreviations[i][2][j]
          text == toLowerCase(args.targetText)
      IN  /\ (args.searchTerm = k /\ includes(text, e))
               => (ret.kind = "return" /\ ret.value = TRUE)
          /\ (args.searchTerm = e /\ includes(text, k))
               => (ret.kind = "return" /\ ret.value = TRUE)

\* fuzzyMatch("geography", "I love GEO 101") is true through the reverse loop.
C8_Witness ==
  /\ pc = "done"
  /\ args.searchTerm = <<"g", "e", "o", "g", "r", "a", "p", "h", "y">>
  /\ args.targetText =
       <<"I", " ", "l", "o", "v", "e", " ", "G", "E", "O", " ", "1", "0", "1">>
  /\ ret = Return(TRUE, 43)

\* C10: a term that is empty or all white space matches every text, the
\* empty text included, at the substring test of line 7, before the table or
\* the edit distance is consulted.
C10_BlankTermMatchesEverything ==
  (pc = "done" /\ \A i \in 1..Len(args.searchTerm) : args.searchTerm[i] \in WhiteSpace)
    => ret = Return(TRUE, 8)

\* fuzzyMatch(" \t", "") is true.
C10_Witness ==
  /\ pc = "done"
  /\ args.searchTerm = <<" ", "\t">>
  /\ args.targetText = <<>>
  /\ ret = Return(TRUE, 8)

\* Two calls end alike: both throw, or both return the same score.
SameOutcome(r1, r2) ==
  /\ r1.kind = r2.kind
  /\ r1.kind = "return" => RatEq(r1.value, r2.value)

\* C1: with a query whose lowercased form is not empty, an empty title adds
\* nothing for word overlap, and calculateMatchScore(query, "", "", "")
\* returns exactly 0.
C1_EmptyTitleScoresZero ==
  (pc = "done" /\ toLowerCase(args.query) # <<>> /\ args.title = <<>>)
    => /\ ret.kind = "return"
       /\ ret.value.den # 0
       /\ RatEq(titleWordScore(toLowerCase(args.title), toLowerCase(args.query)), Rat(0, 1))
       /\ (args.description = <<>> /\ args.subject = <<>>) => RatEq(ret.value, Rat(0, 1))

\* The spellings of a query that differ from it in letter case or in leading
\* and trailing white space only.
QueryVariants(q) ==
  {toUpperCase(q), toLowerCase(q), SwapCase(q), trim(q), <<" ">> \o q, q \o <<" ">>}

\* C2: the score does not depend on the letter case of the query or on white
\* space at its ends.
C2_QueryCaseAndTrimInsensitive ==
  pc = "done" =>
    \A q \in QueryVariants(args.query) :
      SameOutcome(calculateMatchScore(q, args.title, args.description, args.subject), ret)

\* The score the weight table prescribes.
ExpectedScore(query, title, description, subject) ==
  LET q == toLowerCase(query)
      t == toLowerCase(title)
      d == toLowerCase(description)
      s == toLowerCase(subject)
      titleWords == split(t)
      queryWords == split(q)
      matchCount ==
        Cardinality({i \in 1..Len(titleWords) :
                       \E j \in 1..Len(queryWords) :
                         \/ includes(titleWords[i], queryWords[j])
                         \/ includes(queryWords[j], titleWords[i])})
      whole == (IF t = q THEN 100 ELSE IF includes(t, q) THEN 90 ELSE 0)
             + (IF s = q THEN 80 ELSE IF includes(s, q) THEN 75 ELSE 0)
             + (IF includes(d, q) THEN 40 ELSE 0)
             + (IF Len(query) >= 4 /\ SomeRule(query, title \o <<" ">> \o subject)
                THEN 20 ELSE 0)
  IN  Rat(whole * Len(titleWords) + 70 * matchCount, Len(titleWords))

\* C5: calculateMatchScore returns exactly the sum of the title term (100
\* exact, else 90 partial), 70 * matchCount / title words, the subject term
\* (80 exact, else 75 partial), 40 for the description and 20 for the fuzzy
\* bonus of a query of 4 or more characters; e.g. ("maths",
\* "Mathematics 101", "intro course", "Maths") scores 100.
C5_ScoreIsSumOfContributions ==
  pc = "done" =>
    /\ ret.kind = "return"
    /\ RatEq(ret.value,
             ExpectedScore(args.query, args.title, args.description, args.subject))
    /\ (args = [query |-> Maths, title |-> Mathematics101,
                description |-> IntroCourse, subject |-> <<"M", "a", "t", "h", "s">>])
         => RatEq(ret.value, Rat(100, 1))

\* C6: a score that calculateMatchScore returns is at least 0 and at most 310.
C6_ScoreWithinBounds ==
  (pc = "done" /\ ret.kind = "return")
    => /\ ret.value.den > 0
       /\ RatLeq(Rat(0, 1), ret.value)
       /\ RatLeq(ret.value, Rat(310, 1))

\* Every contribution at its maximum: the score is 310.
C6_Witness ==
  /\ pc = "done"
  /\ ret.kind = "return"
  /\ RatEq(ret.value, Rat(310, 1))
  /\ Len(args.query) >= 4

\* C7: when the lowercased title contains the lowercased query without being
\* equal to it, the score with the query itself as title is at least the score
\* with that title, the description and subject being the same.
C7_ExactTitleBeatsPartial ==
  (/\ pc = "done"
   /\ includes(toLowerCase(args.title), toLowerCase(args.query))
   /\ toLowerCase(args.title) # toLowerCase(args.query))
    => LET exact == calculateMatchScore(args.query, args.query,
                                        args.description, args.subject)
       IN  /\ exact.kind = "return"
           /\ ret.kind = "return"
           /\ RatLeq(ret.value, exact.value)

\* Query "a" in title "A A": a partial match where every title word overlaps.
C7_Witness ==
  /\ pc = "done"
  /\ args.query = <<"a">>
  /\ args.title = <<"A", " ", "A">>
  /\ args.description = <<>>
  /\ args.subject = <<>>
  /\ ret.kind = "return"
  /\ RatEq(ret.value, Rat(160, 1))

\* C9: when the lowercased title equals the lowercased query the score is at
\* least 170 (100 and the whole word overlap of 70), and at least 190 when the
\* query has 4 or more characters (the fuzzy bonus).
C9_ExactTitleAtLeast170 ==
  (pc = "done" /\ toLowerCase(args.title) = toLowerCase(args.query))
    => /\ ret.kind = "return"
       /\ RatLeq(Rat(170, 1), ret.value)
       /\ Len(args.query) >= 4 => RatLeq(Rat(190, 1), ret.value)

\* An exact title match of a 4-character query and nothing else: 190.
C9_Witness ==
  /\ pc = "done"
  /\ toLowerCase(args.title) = toLowerCase(args.query)
  /\ Len(args.query) = 4
  /\ args.description = <<>>
  /\ args.subject = <<>>
  /\ ret.kind = "return"
  /\ RatEq(ret.value, Rat(190, 1))

=============================================================================
